---------------------------- MODULE Spec2Model ----------------------------
(***************************************************************************)
(* A model of the task manager backend (src/server.js): the store          *)
(* (users, tasks, achievement unlock records), the request handlers as     *)
(* sequences of store reads and writes (one step per await), and the       *)
(* achievement engine.                                                     *)
(***************************************************************************)
EXTENDS Integers, Sequences, FiniteSets, TLC

(***************************************************************************)
(* Bounds of the model.                                                    *)
(***************************************************************************)
\* the clock counts hours; the hours 0..MaxTime of a day are modelled
MaxTime == 1
\* the days 0..MaxDays are modelled for the logins
MaxDays == 3
\* the days 0..MaxTreeDays are modelled for the tree of sections
MaxTreeDays == 1
\* how many login requests are issued in one behaviour of logins served one
\* after the other
MaxLogins == 2
\* how many login requests are issued in one behaviour of interleaved logins
MaxRaceLogins == 3
\* 1000 * 60 * 60 * 24 milliseconds, in hours
TicksPerDay == 24
\* how many completion requests are issued in one behaviour of interleaved
\* completions
MaxCompletes == 2
\* how many requests to the task routes are issued in one behaviour of
\* requests served one after the other
MaxRequests == 4
\* how many requests to the section, subsection and task routes and logins
\* are issued in one behaviour
MaxTreeOps == 5
\* how many tasks a section or subsection holds when its percentage is computed
MaxTasks == 40
\* how many requests for the weekly heatmap are issued in one behaviour
MaxWeekly == 2

Users == {"u1", "u2"}
\* ObjectIds of the task documents the requests address; never reused
TaskIds == {"t1", "t2"}
\* requests in flight
Slots == {"r1", "r2"}
\* ObjectIds of the section and of the subsection documents; never reused
SectionIds == {"s1", "s2", "s3"}
SubsectionIds == {"b1", "b2"}

(***************************************************************************)
(* Dates.  A Date field of a document is missing (never set), null (set to *)
(* null) or a point in time (a tick).                                      *)
(***************************************************************************)
Missing == [k |-> "missing"]
Null == [k |-> "null"]
Date(t) == [k |-> "date", t |-> t]
IsDate(d) == d.k = "date"
\* an ObjectId stored in a field that may also be null
Ref(id) == [k |-> "id", id |-> id]

\* JavaScript truthiness of a Date field: `task.deadline && ...`
Truthy(d) == IsDate(d)

\* BSON comparison order as used by the aggregation operator $lt:
\* missing < null < every date.
BsonRank(d) == IF d.k = "missing" THEN 0 ELSE IF d.k = "null" THEN 1 ELSE 2
BsonLt(a, b) ==
  IF IsDate(a) /\ IsDate(b) THEN a.t < b.t ELSE BsonRank(a) < BsonRank(b)

(***************************************************************************)
(* Documents.                                                              *)
(***************************************************************************)
\* an ObjectId no document has been created with / whose document was deleted
Fresh == [k |-> "fresh"]
Deleted == [k |-> "deleted"]
\* the result of a findOne that matched nothing
NoDoc == [k |-> "none"]

\* the ids a request names are ids of documents that exist or have existed:
\* no client knows the ObjectId a future document will get
Issued(D, id) == D[id] # Fresh
IssuedRef(D, ref) == IF ref = Null THEN TRUE ELSE D[ref.id] # Fresh

IsTask(d) == d.k = "task"
IsSection(d) == d.k = "section"
IsSubsection(d) == d.k = "subsection"

\* new Section({ userId, title, icon, order })
NewSection(u, order) == [k |-> "section", userId |-> u, order |-> order]

\* new Subsection({ sectionId, userId, title, order })
NewSubsection(s, u, order) ==
  [k |-> "subsection", sectionId |-> s, userId |-> u, order |-> order]

VARIABLES
  now,           \* the server clock: new Date() / Date.now
  users,         \* User collection: userId -> [points, streak, lastActiveDate,
                 \* createdAt], or NoDoc before the signup
  tasks,         \* Task collection: taskId -> task document, Fresh or Deleted
  archive,       \* further completed Task documents of each user, as counts
  achievements,  \* Achievement collection: <<userId, achievementId>> -> number of records
  req,           \* the requests in flight: slot -> handler state
  budget,        \* requests still to be issued
  completions,   \* taskId -> how many completion requests have completed the task
  sections,      \* Section collection: sectionId -> section document, Fresh or Deleted
  subsections,   \* Subsection collection: subsectionId -> subsection document, Fresh or Deleted
  logins,        \* userId -> how many logins of the user have succeeded
  zone           \* the local time zone of the server process

vars == <<now, users, tasks, archive, achievements, req, budget, completions,
          sections, subsections, logins, zone>>

(***************************************************************************)
(* Local time.  The clock counts hours from a local midnight, tick 0.      *)
(* setHours(0,0,0,0) and toDateString() work in the local time zone of the *)
(* server: its days are TicksPerDay hours long, except the day on which    *)
(* daylight saving time starts (an hour shorter) or ends (an hour longer). *)
(***************************************************************************)
\* a zone without daylight saving time, and zones where it starts or ends on
\* the local day ShiftDay
Zones == {"utc", "dstStarts", "dstEnds"}
ShiftDay == 1

\* by how many hours the day ShiftDay of zone z is longer than TicksPerDay
Shift(z) == CASE z = "dstStarts" -> -1 [] z = "dstEnds" -> 1 [] OTHER -> 0

\* the tick of the local midnight that starts the local day d
Midnight(z, d) == d * TicksPerDay + (IF d > ShiftDay THEN Shift(z) ELSE 0)

\* the local day the tick t >= 0 lies on
LocalDay(z, t) ==
  IF t < Midnight(z, ShiftDay + 1)
  THEN (IF t \div TicksPerDay < ShiftDay THEN t \div TicksPerDay ELSE ShiftDay)
  ELSE (t - Shift(z)) \div TicksPerDay

(***************************************************************************)
(* The achievement catalog, in the order of the source.                    *)
(***************************************************************************)
ACHIEVEMENTS == <<
  [id |-> "first_task",  points |-> 50],
  [id |-> "streak_7",    points |-> 200],
  [id |-> "tasks_100",   points |-> 500],
  [id |-> "early_10",    points |-> 150],
  [id |-> "points_1000", points |-> 300],
  [id |-> "tasks_10",    points |-> 100] >>

AchIds == {ACHIEVEMENTS[i].id : i \in 1..Len(ACHIEVEMENTS)}

\* Task.countDocuments({ userId, status: 'completed' })
CompletedCount(T, A, u) ==
  A[u].done +
  Cardinality({t \in TaskIds : IsTask(T[t]) /\ T[t].userId = u
                               /\ T[t].status = "completed"})

\* Task.countDocuments({ userId, status: 'completed', type: 'deadline',
\*                       $expr: { $lt: ['$completedAt', '$deadline'] } })
EarlyCount(T, A, u) ==
  A[u].early +
  Cardinality({t \in TaskIds : IsTask(T[t]) /\ T[t].userId = u
                               /\ T[t].status = "completed"
                               /\ T[t].type = "deadline"
                               /\ BsonLt(T[t].completedAt, T[t].deadline)})

\* ach.check(userId), evaluated on the store (U users, T tasks, A archive)
Check(id, U, T, A, u) ==
  CASE id = "first_task"  -> CompletedCount(T, A, u) >= 1
    [] id = "streak_7"    -> U[u].streak >= 7
    [] id = "tasks_100"   -> CompletedCount(T, A, u) >= 100
    [] id = "early_10"    -> EarlyCount(T, A, u) >= 10
    [] id = "points_1000" -> U[u].points >= 1000
    [] id = "tasks_10"    -> CompletedCount(T, A, u) >= 10

(***************************************************************************)
(* Point computation of the completion handler.                            *)
(***************************************************************************)
BasePoints(priority) ==
  IF priority = "high" THEN 100 ELSE IF priority = "medium" THEN 75 ELSE 50

\* the bonus test with the deadline itself counted as early
BonusUpToDeadline(task, t) ==
  IF task.type = "deadline" /\ Truthy(task.deadline) /\ t <= task.deadline.t
  THEN 25 ELSE 0

\* the bonus test, with t the clock read by `new Date()` in the test
Bonus(task, t) ==
  IF task.type = "deadline" /\ Truthy(task.deadline) /\ t < task.deadline.t
  THEN 25 ELSE 0

PointsEarned(task, t) == BasePoints(task.priority) + Bonus(task, t)


(***************************************************************************)
(* Handler state of a request.  user is req.user (the document loaded by   *)
(* authMiddleware), task the document loaded by the handler, points the    *)
(* local `points`, idx the position of checkAchievements' loop, achUser    *)
(* the `user` loaded inside that loop, res the response.  before is the    *)
(* stored points of the user when the request arrived; taskWrites and      *)
(* pointWrites count the store writes the request has performed.  id is    *)
(* req.params.id / req.params.sectionId of the section and subsection      *)
(* routes, doc the section or subsection document the handler has built.   *)
(***************************************************************************)
Idle ==
  [pc |-> "idle", op |-> "none", userId |-> "none", taskId |-> "none",
   user |-> NoDoc, task |-> NoDoc, points |-> 0, idx |-> 0, achUser |-> NoDoc,
   newAchievements |-> <<>>, res |-> [status |-> "none"],
   before |-> 0, taskWrites |-> 0, pointWrites |-> 0,
   id |-> "none", doc |-> NoDoc]

\* authMiddleware: User.findById(decoded.userId); req.user = user
AuthMiddleware(u, op) ==
  [Idle EXCEPT !.pc = "authed", !.op = op, !.userId = u, !.user = users[u]]

\* Task.findOne({ _id, userId })
FindOneTask(T, t, u) ==
  IF IsTask(T[t]) /\ T[t].userId = u THEN T[t] ELSE NoDoc

\* the handler without its status check
CompleteGuardNoStatus(task) ==
  IF task = NoDoc THEN "NotFound" ELSE "ok"

\* the two early returns of the completion handler
CompleteGuard(task) ==
  IF task = NoDoc THEN "NotFound"
  ELSE IF task.status = "completed" THEN "AlreadyCompleted"
  ELSE "ok"

\* POST /api/tasks/:id/complete is requested by user u for task t
StartComplete(r, u, t) ==
  /\ req[r].pc = "idle"
  /\ budget > 0
  /\ budget' = budget - 1
  /\ req' = [req EXCEPT ![r] = [AuthMiddleware(u, "complete")
                                  EXCEPT !.pc = "findTask", !.taskId = t,
                                         !.before = users[u].points]]
  /\ UNCHANGED <<zone, now, users, tasks, archive, achievements, completions,
               sections, subsections, logins>>

\* await Task.findOne(...); the two guards; task.status = 'completed';
\* task.completedAt = new Date(); task.save() is issued
FindTask(r) ==
  /\ req[r].pc = "findTask"
  /\ LET task == FindOneTask(tasks, req[r].taskId, req[r].userId)
         g == CompleteGuard(task)
     IN  req' = [req EXCEPT ![r] =
           IF g = "ok"
           THEN [@ EXCEPT !.pc = "saveTask",
                          !.task = [task EXCEPT !.status = "completed",
                                                !.completedAt = Date(now)]]
           ELSE [@ EXCEPT !.pc = "done", !.res = [status |-> g]]]
  /\ UNCHANGED <<zone, now, users, tasks, archive, achievements, budget, completions,
               sections, subsections, logins>>

\* await task.save() writes the modified paths status and completedAt (it
\* throws when the document is gone: the catch answers 500); then the
\* points are computed, req.user.points += points, req.user.save() is issued
SaveTask(r) ==
  /\ req[r].pc = "saveTask"
  /\ LET t == req[r].taskId
     IN  IF IsTask(tasks[t])
         THEN /\ tasks' = [tasks EXCEPT ![t].status = req[r].task.status,
                                        ![t].completedAt = req[r].task.completedAt]
              /\ LET points == PointsEarned(req[r].task, now)
                 IN  req' = [req EXCEPT ![r].pc = "saveUser",
                                        ![r].points = points,
                                        ![r].user.points = @ + points,
                                        ![r].taskWrites = @ + 1]
              /\ completions' = [completions EXCEPT ![t] = @ + 1]
         ELSE /\ tasks' = tasks
              /\ completions' = completions
              /\ req' = [req EXCEPT ![r].pc = "done",
                                    ![r].res = [status |-> "ServerError"]]
  /\ UNCHANGED <<zone, now, users, archive, achievements, budget,
               sections, subsections, logins>>

\* the handler without its req.user.save()
SaveUserSkipped(r) ==
  /\ req[r].pc = "saveUser"
  /\ req' = [req EXCEPT ![r].pc = "achFind", ![r].idx = 1]
  /\ UNCHANGED <<zone, now, users, tasks, archive, achievements, budget, completions,
               sections, subsections, logins>>

\* await req.user.save() writes the modified path points;
\* checkAchievements(req.userId) starts with the first catalog entry
SaveUser(r) ==
  /\ req[r].pc = "saveUser"
  /\ users' = [users EXCEPT ![req[r].userId].points = req[r].user.points]
  /\ req' = [req EXCEPT ![r].pc = "achFind", ![r].idx = 1,
                        ![r].pointWrites = @ + 1]
  /\ UNCHANGED <<zone, now, tasks, archive, achievements, budget, completions,
               sections, subsections, logins>>

\* the response of a completion whose checkAchievements has returned
Response(q) ==
  [status |-> "ok", pointsEarned |-> q.points, totalPoints |-> q.user.points,
   newAchievements |-> q.newAchievements]

\* the loop of checkAchievements moves to the next entry, or returns and
\* the handler answers
NextEntry(q) ==
  IF q.idx < Len(ACHIEVEMENTS)
  THEN [q EXCEPT !.pc = "achFind", !.idx = @ + 1, !.achUser = NoDoc]
  ELSE [q EXCEPT !.pc = "done", !.idx = 0, !.achUser = NoDoc,
                 !.res = Response(q)]

\* const existing = await Achievement.findOne({ userId, achievementId })
AchFind(r) ==
  /\ req[r].pc = "achFind"
  /\ LET ach == ACHIEVEMENTS[req[r].idx]
         existing == achievements[<<req[r].userId, ach.id>>] > 0
     IN  req' = [req EXCEPT ![r] =
                   IF existing THEN NextEntry(@) ELSE [@ EXCEPT !.pc = "achCheck"]]
  /\ UNCHANGED <<zone, now, users, tasks, archive, achievements, budget, completions,
               sections, subsections, logins>>

\* await ach.check(userId)
AchCheck(r) ==
  /\ req[r].pc = "achCheck"
  /\ LET ach == ACHIEVEMENTS[req[r].idx]
     IN  req' = [req EXCEPT ![r] =
                   IF Check(ach.id, users, tasks, archive, req[r].userId)
                   THEN [@ EXCEPT !.pc = "achInsert"]
                   ELSE NextEntry(@)]
  /\ UNCHANGED <<zone, now, users, tasks, archive, achievements, budget, completions,
               sections, subsections, logins>>

\* await new Achievement({ userId, achievementId }).save()
AchInsert(r) ==
  /\ req[r].pc = "achInsert"
  /\ LET ach == ACHIEVEMENTS[req[r].idx]
     IN  achievements' = [achievements EXCEPT ![<<req[r].userId, ach.id>>] = @ + 1]
  /\ req' = [req EXCEPT ![r].pc = "achLoadUser"]
  /\ UNCHANGED <<zone, now, users, tasks, archive, budget, completions,
               sections, subsections, logins>>

\* const user = await User.findById(userId); user.points += ach.points
AchLoadUser(r) ==
  /\ req[r].pc = "achLoadUser"
  /\ LET ach == ACHIEVEMENTS[req[r].idx]
         user == users[req[r].userId]
     IN  req' = [req EXCEPT ![r].pc = "achSaveUser",
                            ![r].achUser = [user EXCEPT !.points = @ + ach.points]]
  /\ UNCHANGED <<zone, now, users, tasks, archive, achievements, budget, completions,
               sections, subsections, logins>>

\* await user.save(); newAchievements.push(...)
AchSaveUser(r) ==
  /\ req[r].pc = "achSaveUser"
  /\ users' = [users EXCEPT ![req[r].userId].points = req[r].achUser.points]
  /\ LET ach == ACHIEVEMENTS[req[r].idx]
     IN  req' = [req EXCEPT ![r] =
                   NextEntry([@ EXCEPT !.newAchievements = Append(@, ach.id),
                                       !.pointWrites = @ + 1])]
  /\ UNCHANGED <<zone, now, tasks, archive, achievements, budget, completions,
               sections, subsections, logins>>

\* the response has been sent: the request is over
Return(r) ==
  /\ req[r].pc = "done"
  /\ req' = [req EXCEPT ![r] = Idle]
  /\ UNCHANGED <<zone, now, users, tasks, archive, achievements, budget, completions,
               sections, subsections, logins>>


(***************************************************************************)
(* checkAchievements(userId) run on its own, with no other request in      *)
(* between its store operations: the store it leaves and the list it       *)
(* returns, from entry i of the catalog on.                                *)
(***************************************************************************)
RECURSIVE CheckFrom(_, _, _, _, _, _)
CheckFrom(i, U, Ach, T, A, u) ==
  IF i > Len(ACHIEVEMENTS)
  THEN [users |-> U, achievements |-> Ach, newAchievements |-> <<>>]
  ELSE LET ach == ACHIEVEMENTS[i]
           existing == Ach[<<u, ach.id>>] > 0
           unlock == ~existing /\ Check(ach.id, U, T, A, u)
           U2 == IF unlock THEN [U EXCEPT ![u].points = @ + ach.points] ELSE U
           Ach2 == IF unlock THEN [Ach EXCEPT ![<<u, ach.id>>] = @ + 1] ELSE Ach
           rest == CheckFrom(i + 1, U2, Ach2, T, A, u)
       IN  [rest EXCEPT !.newAchievements =
                          IF unlock THEN <<ach.id>> \o @ ELSE @]

CheckAchievements(U, Ach, T, A, u) == CheckFrom(1, U, Ach, T, A, u)

(***************************************************************************)
(* The other task routes: authMiddleware, then one store operation.        *)
(***************************************************************************)
TaskSeq == <<"t1", "t2">>

\* the ObjectId the next created task document gets
NewTaskId ==
  LET free == {i \in 1..Len(TaskSeq) : tasks[TaskSeq[i]] = Fresh}
  IN  TaskSeq[CHOOSE i \in free : \A j \in free : i <= j]

Types == {"daily", "deadline"}
Priorities == {"low", "medium", "high"}
\* a date of a request body: absent, or a point in time
DateInputs == {Missing, Date(1)}

\* new Task({ ... }) of POST /api/tasks, with the schema defaults
NewTask(u, sectionId, subsectionId, type, priority, targetDate, deadline) ==
  [k |-> "task", userId |-> u, sectionId |-> sectionId,
   subsectionId |-> subsectionId, type |-> type,
   targetDate |-> IF type = "daily"
                  THEN (IF Truthy(targetDate) THEN targetDate ELSE Date(now))
                  ELSE Null,
   deadline |-> IF type = "deadline" THEN deadline ELSE Null,
   priority |-> IF priority = "missing" THEN "medium" ELSE priority,
   status |-> "pending", completedAt |-> Missing]

\* how many requests of route op are between their first and their last step
InFlight(op) ==
  Cardinality({r \in DOMAIN req : req[r].op = op /\ req[r].pc \notin {"idle", "done"}})

\* POST /api/tasks is requested by u: authMiddleware; new Task({ ... }) is
\* built (the default of targetDate reads the clock), subsectionId is
\* `subsectionId || null`; task.save() is issued.  An ObjectId is left for
\* the document.
CreateTask(r, u, sectionId, subsectionId, type, priority, targetDate, deadline) ==
  /\ req[r].pc = "idle"
  /\ budget > 0
  /\ Cardinality({t \in TaskIds : tasks[t] = Fresh}) > InFlight("createTask")
  /\ budget' = budget - 1
  /\ req' = [req EXCEPT ![r] =
               [AuthMiddleware(u, "createTask")
                  EXCEPT !.pc = "saveNewTask",
                         !.doc = NewTask(u, sectionId, subsectionId, type,
                                         priority, targetDate, deadline)]]
  /\ UNCHANGED <<zone, now, users, tasks, archive, achievements, completions,
               sections, subsections, logins>>

\* await task.save() inserts the document; the response is 201
SaveNewTask(r) ==
  /\ req[r].pc = "saveNewTask"
  /\ tasks' = [tasks EXCEPT ![NewTaskId] = req[r].doc]
  /\ req' = [req EXCEPT ![r].pc = "done", ![r].taskId = NewTaskId,
                        ![r].res = [status |-> "ok"]]
  /\ UNCHANGED <<zone, now, users, archive, achievements, budget, completions,
               sections, subsections, logins>>

\* the request bodies of PUT /api/tasks/:id
Patches ==
  { [status |-> "pending"], [status |-> "completed"],
    [deadline |-> Date(1)] }

\* the document with the fields of the body set
ApplyPatch(doc, body) ==
  [f \in DOMAIN doc |-> IF f \in DOMAIN body THEN body[f] ELSE doc[f]]

\* PUT /api/tasks/:id is requested by u: authMiddleware;
\* Task.findOneAndUpdate(...) is issued
StartUpdateTask(r, u, t, body) ==
  /\ req[r].pc = "idle"
  /\ budget > 0
  /\ budget' = budget - 1
  /\ req' = [req EXCEPT ![r] = [AuthMiddleware(u, "updateTask")
                                  EXCEPT !.pc = "updateTask", !.taskId = t,
                                         !.doc = body]]
  /\ UNCHANGED <<zone, now, users, tasks, archive, achievements, completions,
               sections, subsections, logins>>

\* the update route followed by checkAchievements(req.userId)
UpdateTaskThenCheck(r) ==
  /\ req[r].pc = "updateTask"
  /\ LET t == req[r].taskId
         u == req[r].userId
         found == FindOneTask(tasks, t, u) # NoDoc
     IN  /\ tasks' = IF found THEN [tasks EXCEPT ![t] = ApplyPatch(@, req[r].doc)]
                     ELSE tasks
         /\ LET run == CheckAchievements(users, achievements, tasks', archive, u)
            IN  /\ users' = run.users
                /\ achievements' = run.achievements
         /\ req' = [req EXCEPT ![r].pc = "done",
                               ![r].res = [status |-> IF found THEN "ok"
                                                      ELSE "NotFound"]]
  /\ UNCHANGED <<zone, now, archive, budget, completions,
                 sections, subsections, logins>>

\* await Task.findOneAndUpdate({ _id, userId }, req.body, { new: true });
\* 404 when no document matched
UpdateTask(r) ==
  /\ req[r].pc = "updateTask"
  /\ LET t == req[r].taskId
         found == FindOneTask(tasks, t, req[r].userId) # NoDoc
     IN  /\ tasks' = IF found THEN [tasks EXCEPT ![t] = ApplyPatch(@, req[r].doc)]
                     ELSE tasks
         /\ req' = [req EXCEPT ![r].pc = "done",
                               ![r].res = [status |-> IF found THEN "ok"
                                                      ELSE "NotFound"]]
  /\ UNCHANGED <<zone, now, users, archive, achievements, budget, completions,
               sections, subsections, logins>>

\* DELETE /api/tasks/:id is requested by u: authMiddleware;
\* Task.findOneAndDelete(...) is issued
StartDeleteTask(r, u, t) ==
  /\ req[r].pc = "idle"
  /\ budget > 0
  /\ budget' = budget - 1
  /\ req' = [req EXCEPT ![r] = [AuthMiddleware(u, "deleteTask")
                                  EXCEPT !.pc = "deleteTask", !.taskId = t]]
  /\ UNCHANGED <<zone, now, users, tasks, archive, achievements, completions,
               sections, subsections, logins>>

\* await Task.findOneAndDelete({ _id, userId }); the response is 200
\* 'Task deleted' whether a document matched or not
DeleteTask(r) ==
  /\ req[r].pc = "deleteTask"
  /\ LET t == req[r].taskId
     IN  tasks' = IF FindOneTask(tasks, t, req[r].userId) # NoDoc
                  THEN [tasks EXCEPT ![t] = Deleted]
                  ELSE tasks
  /\ req' = [req EXCEPT ![r].pc = "done", ![r].res = [status |-> "ok"]]
  /\ UNCHANGED <<zone, now, users, archive, achievements, budget, completions,
               sections, subsections, logins>>

(***************************************************************************)
(* The section and subsection routes: authMiddleware, then the store       *)
(* operations of the handler, one step each.                               *)
(***************************************************************************)
SectionSeq == <<"s1", "s2", "s3">>
SubsectionSeq == <<"b1", "b2">>

\* the ObjectId the next created section / subsection document gets
NewSectionId ==
  LET free == {i \in 1..Len(SectionSeq) : sections[SectionSeq[i]] = Fresh}
  IN  SectionSeq[CHOOSE i \in free : \A j \in free : i <= j]

NewSubsectionId ==
  LET free == {i \in 1..Len(SubsectionSeq) : subsections[SubsectionSeq[i]] = Fresh}
  IN  SubsectionSeq[CHOOSE i \in free : \A j \in free : i <= j]

\* Section.countDocuments({ userId })
SectionCount(S, u) ==
  Cardinality({s \in SectionIds : IsSection(S[s]) /\ S[s].userId = u})

\* Subsection.countDocuments({ sectionId })
SubsectionCount(B, s) ==
  Cardinality({b \in SubsectionIds : IsSubsection(B[b]) /\ B[b].sectionId = s})

\* a section or subsection route op is requested by u for the document id
\* with the body: authMiddleware; the first store operation of the handler
\* is issued
StartTreeRequest(r, u, op, first, id, body) ==
  /\ req[r].pc = "idle"
  /\ budget > 0
  /\ budget' = budget - 1
  /\ req' = [req EXCEPT ![r] = [AuthMiddleware(u, op)
                                  EXCEPT !.pc = first, !.id = id, !.doc = body]]
  /\ UNCHANGED <<zone, now, users, tasks, archive, achievements, completions,
                 sections, subsections, logins>>

\* POST /api/sections is requested by u.  An ObjectId is left for the document.
StartCreateSection(r, u) ==
  /\ Cardinality({s \in SectionIds : sections[s] = Fresh}) > InFlight("createSection")
  /\ StartTreeRequest(r, u, "createSection", "countSections", "none", NoDoc)

\* await Section.countDocuments({ userId });
\* new Section({ ..., order: count }); section.save() is issued
CreateSectionCount(r) ==
  /\ req[r].pc = "countSections"
  /\ req' = [req EXCEPT ![r].pc = "saveSection",
                        ![r].doc = NewSection(req[r].userId,
                                              SectionCount(sections, req[r].userId))]
  /\ UNCHANGED <<zone, now, users, tasks, archive, achievements, budget, completions,
                 sections, subsections, logins>>

\* await section.save(); the response is 201 with the document
SaveSection(r) ==
  /\ req[r].pc = "saveSection"
  /\ sections' = [sections EXCEPT ![NewSectionId] = req[r].doc]
  /\ req' = [req EXCEPT ![r].pc = "done", ![r].id = NewSectionId,
                        ![r].res = [status |-> "ok"]]
  /\ UNCHANGED <<zone, now, users, tasks, archive, achievements, budget, completions,
                 subsections, logins>>

\* the request bodies of PUT /api/sections/:id
SectionPatches == { [order |-> 0], [userId |-> "u2"] }

\* PUT /api/sections/:id is requested by u
StartUpdateSection(r, u, s, body) ==
  StartTreeRequest(r, u, "updateSection", "updateSection", s, body)

\* await Section.findOneAndUpdate({ _id, userId }, req.body, { new: true });
\* 404 when no document matched
UpdateSection(r) ==
  /\ req[r].pc = "updateSection"
  /\ LET s == req[r].id
         found == IsSection(sections[s]) /\ sections[s].userId = req[r].userId
     IN  /\ sections' = IF found
                        THEN [sections EXCEPT ![s] = ApplyPatch(@, req[r].doc)]
                        ELSE sections
         /\ req' = [req EXCEPT ![r].pc = "done",
                               ![r].res = [status |-> IF found THEN "ok"
                                                      ELSE "NotFound"]]
  /\ UNCHANGED <<zone, now, users, tasks, archive, achievements, budget, completions,
                 subsections, logins>>

\* DELETE /api/sections/:id is requested by u
StartDeleteSection(r, u, s) ==
  StartTreeRequest(r, u, "deleteSection", "delSectionTasks", s, NoDoc)

\* await Task.deleteMany({ sectionId: req.params.id })
DeleteSectionTasks(r) ==
  /\ req[r].pc = "delSectionTasks"
  /\ tasks' = [t \in TaskIds |->
                IF IsTask(tasks[t]) /\ tasks[t].sectionId = req[r].id
                THEN Deleted ELSE tasks[t]]
  /\ req' = [req EXCEPT ![r].pc = "delSectionSubs"]
  /\ UNCHANGED <<zone, now, users, archive, achievements, budget, completions,
                 sections, subsections, logins>>

\* await Subsection.deleteMany({ sectionId: req.params.id })
DeleteSectionSubs(r) ==
  /\ req[r].pc = "delSectionSubs"
  /\ subsections' = [b \in SubsectionIds |->
                      IF IsSubsection(subsections[b])
                         /\ subsections[b].sectionId = req[r].id
                      THEN Deleted ELSE subsections[b]]
  /\ req' = [req EXCEPT ![r].pc = "delSection"]
  /\ UNCHANGED <<zone, now, users, tasks, archive, achievements, budget, completions,
                 sections, logins>>

\* await Section.findOneAndDelete({ _id: req.params.id, userId });
\* the response is 200 'Section deleted' whether a document matched or not
DeleteSectionDoc(r) ==
  /\ req[r].pc = "delSection"
  /\ LET s == req[r].id
     IN  sections' = IF IsSection(sections[s]) /\ sections[s].userId = req[r].userId
                     THEN [sections EXCEPT ![s] = Deleted]
                     ELSE sections
  /\ req' = [req EXCEPT ![r].pc = "done", ![r].res = [status |-> "ok"]]
  /\ UNCHANGED <<zone, now, users, tasks, archive, achievements, budget, completions,
                 subsections, logins>>

\* POST /api/sections/:sectionId/subsections is requested by u.  An ObjectId
\* is left for the document.
StartCreateSubsection(r, u, s) ==
  /\ Cardinality({b \in SubsectionIds : subsections[b] = Fresh})
       > InFlight("createSubsection")
  /\ StartTreeRequest(r, u, "createSubsection", "countSubsections", s, NoDoc)

\* await Subsection.countDocuments({ sectionId });
\* new Subsection({ sectionId, userId, title, order: count }); save() is issued
CreateSubsectionCount(r) ==
  /\ req[r].pc = "countSubsections"
  /\ req' = [req EXCEPT ![r].pc = "saveSubsection",
                        ![r].doc = NewSubsection(req[r].id, req[r].userId,
                                     SubsectionCount(subsections, req[r].id))]
  /\ UNCHANGED <<zone, now, users, tasks, archive, achievements, budget, completions,
                 sections, subsections, logins>>

\* await subsection.save(); the response is 201 with the document
SaveSubsection(r) ==
  /\ req[r].pc = "saveSubsection"
  /\ subsections' = [subsections EXCEPT ![NewSubsectionId] = req[r].doc]
  /\ req' = [req EXCEPT ![r].pc = "done", ![r].res = [status |-> "ok"]]
  /\ UNCHANGED <<zone, now, users, tasks, archive, achievements, budget, completions,
                 sections, logins>>

\* the request bodies of PUT /api/subsections/:id
SubsectionPatches == { [sectionId |-> "s2"], [order |-> 0] }

\* PUT /api/subsections/:id is requested by u
StartUpdateSubsection(r, u, b, body) ==
  StartTreeRequest(r, u, "updateSubsection", "updateSubsection", b, body)

\* await Subsection.findOneAndUpdate({ _id, userId }, req.body, { new: true });
\* 404 when no document matched
UpdateSubsection(r) ==
  /\ req[r].pc = "updateSubsection"
  /\ LET b == req[r].id
         found == IsSubsection(subsections[b])
                    /\ subsections[b].userId = req[r].userId
     IN  /\ subsections' = IF found
                           THEN [subsections EXCEPT ![b] = ApplyPatch(@, req[r].doc)]
                           ELSE subsections
         /\ req' = [req EXCEPT ![r].pc = "done",
                               ![r].res = [status |-> IF found THEN "ok"
                                                      ELSE "NotFound"]]
  /\ UNCHANGED <<zone, now, users, tasks, archive, achievements, budget, completions,
                 sections, logins>>

\* DELETE /api/subsections/:id is requested by u
StartDeleteSubsection(r, u, b) ==
  StartTreeRequest(r, u, "deleteSubsection", "delSubsectionTasks", b, NoDoc)

\* await Task.deleteMany({ subsectionId: req.params.id })
DeleteSubsectionTasks(r) ==
  /\ req[r].pc = "delSubsectionTasks"
  /\ tasks' = [t \in TaskIds |->
                IF IsTask(tasks[t]) /\ tasks[t].subsectionId = Ref(req[r].id)
                THEN Deleted ELSE tasks[t]]
  /\ req' = [req EXCEPT ![r].pc = "delSubsection"]
  /\ UNCHANGED <<zone, now, users, archive, achievements, budget, completions,
                 sections, subsections, logins>>

\* await Subsection.findOneAndDelete({ _id: req.params.id, userId });
\* the response is 200 'Subsection deleted' whether a document matched or not
DeleteSubsectionDoc(r) ==
  /\ req[r].pc = "delSubsection"
  /\ LET b == req[r].id
     IN  subsections' = IF IsSubsection(subsections[b])
                           /\ subsections[b].userId = req[r].userId
                        THEN [subsections EXCEPT ![b] = Deleted]
                        ELSE subsections
  /\ req' = [req EXCEPT ![r].pc = "done", ![r].res = [status |-> "ok"]]
  /\ UNCHANGED <<zone, now, users, tasks, archive, achievements, budget, completions,
                 sections, logins>>

(***************************************************************************)
(* GET /api/sections: the completion percentages.  The JavaScript numbers  *)
(* are IEEE 754 doubles: a positive double is kept as its exponent e and   *)
(* its 53-bit significand m, the value being m / 2^(52 + e); m is a list   *)
(* of five limbs, the leading bit and four limbs of 13 bits.  Every        *)
(* operation rounds its exact result to 53 bits, ties to even.             *)
(***************************************************************************)
LimbBase == 8192
Limbs == 5

RECURSIVE Pow2(_)
Pow2(k) == IF k = 0 THEN 1 ELSE 2 * Pow2(k - 1)

RECURSIVE BitLength(_)
BitLength(x) == IF x = 0 THEN 0 ELSE 1 + BitLength(x \div 2)

\* the limbs l with carry added at limb i
RECURSIVE AddCarry(_, _, _)
AddCarry(l, i, carry) ==
  IF i = 1 THEN [l EXCEPT ![1] = @ + carry]
  ELSE LET v == l[i] + carry
       IN  AddCarry([l EXCEPT ![i] = v % LimbBase], i - 1, v \div LimbBase)

\* the limbs l times k, from limb i upwards
RECURSIVE MulCarry(_, _, _, _)
MulCarry(l, k, i, carry) ==
  IF i = 1 THEN [l EXCEPT ![1] = @ * k + carry]
  ELSE LET v == l[i] * k + carry
       IN  MulCarry([l EXCEPT ![i] = v % LimbBase], k, i - 1, v \div LimbBase)

\* the least e with a * 2^e >= b
RECURSIVE Exponent(_, _)
Exponent(a, b) == IF a >= b THEN 0 ELSE 1 + Exponent(2 * a, b)

\* long division: the next k limbs of r / b, and the remainder
RECURSIVE DivLimbs(_, _, _)
DivLimbs(r, b, k) ==
  IF k = 0 THEN [limbs |-> <<>>, rem |-> r]
  ELSE LET rest == DivLimbs((r * LimbBase) % b, b, k - 1)
       IN  [rest EXCEPT !.limbs = <<(r * LimbBase) \div b>> \o @]

\* a / b for integers 0 < a <= b: the quotient rounded to 53 bits
Divide(a, b) ==
  LET e == Exponent(a, b)
      d == DivLimbs(a * Pow2(e) - b, b, Limbs - 1)
      m == <<1>> \o d.limbs
      up == 2 * d.rem > b \/ (2 * d.rem = b /\ m[Limbs] % 2 = 1)
  IN  [e |-> e, m |-> IF up THEN AddCarry(m, Limbs, 1) ELSE m]

\* x * 100: the product rounded to 53 bits
Times100(x) ==
  LET p == MulCarry(x.m, 100, Limbs, 0)
      g == BitLength(p[1]) - 1
      low == p[Limbs] % Pow2(g)
      half == Pow2(g - 1)
      up == low > half \/ (low = half /\ (p[Limbs] \div Pow2(g)) % 2 = 1)
      cut == [p EXCEPT ![Limbs] = @ - low]
  IN  [e |-> x.e, m |-> IF up THEN AddCarry(cut, Limbs, Pow2(g)) ELSE cut]

\* Math.round(x): the integer nearest to x, a tie going up
MathRound(x) ==
  IF x.e = 0
  THEN x.m[1] + (IF x.m[2] >= LimbBase \div 2 THEN 1 ELSE 0)
  ELSE (x.m[1] + Pow2(x.e - 1)) \div Pow2(x.e)

\* tasks.length ? Math.round((completed / tasks.length) * 100) : 0
CompletionPercent(completed, length) ==
  IF length = 0 \/ completed = 0 THEN 0
  ELSE MathRound(Times100(Divide(completed, length)))

\* Task.find({ subsectionId: sub._id })
SubsectionTasks(T, b) ==
  {t \in TaskIds : IsTask(T[t]) /\ T[t].subsectionId = Ref(b)}

\* Task.find({ sectionId: section._id, subsectionId: null })
SectionTasks(T, s) ==
  {t \in TaskIds : IsTask(T[t]) /\ T[t].sectionId = s /\ T[t].subsectionId = Null}

\* Subsection.find({ sectionId: section._id })
SubsectionsOf(B, s) ==
  {b \in SubsectionIds : IsSubsection(B[b]) /\ B[b].sectionId = s}

\* tasks.filter(t => t.status === 'completed')
CompletedOf(T, ts) == {t \in ts : T[t].status = "completed"}

\* the length of the concatenation of the lists ts(b), b in bs
RECURSIVE TotalLength(_, _, _)
TotalLength(T, bs, completedOnly) ==
  IF bs = {} THEN 0
  ELSE LET b == CHOOSE x \in bs : TRUE
           ts == SubsectionTasks(T, b)
       IN  Cardinality(IF completedOnly THEN CompletedOf(T, ts) ELSE ts)
             + TotalLength(T, bs \ {b}, completedOnly)

\* completionPercent of a subsection in the response of GET /api/sections
SubsectionPercent(T, b) ==
  LET ts == SubsectionTasks(T, b)
  IN  CompletionPercent(Cardinality(CompletedOf(T, ts)), Cardinality(ts))

\* completionPercent of a section: allTasks is the section's direct tasks
\* followed by the tasks of each of its subsections
SectionPercent(T, B, s) ==
  LET direct == SectionTasks(T, s)
      subs == SubsectionsOf(B, s)
      length == Cardinality(direct) + TotalLength(T, subs, FALSE)
      completed == Cardinality(CompletedOf(T, direct)) + TotalLength(T, subs, TRUE)
  IN  CompletionPercent(completed, length)

\* time passes: an hour
Tick ==
  /\ now % TicksPerDay < MaxTime
  /\ now' = now + 1
  /\ UNCHANGED <<zone, users, tasks, archive, achievements, req, budget, completions,
               sections, subsections, logins>>

\* u1 has created one section, which holds the tasks; no subsection
HomeSection == [s \in SectionIds |-> IF s = "s1" THEN NewSection("u1", 0) ELSE Fresh]
NoSubsections == [b \in SubsectionIds |-> Fresh]

(***************************************************************************)
(* Initial states.  u1 starts in one of a few states the routes reach      *)
(* (tasks completed earlier, points earned earlier, a streak built by      *)
(* logins); u2 has just signed up.                                         *)
(***************************************************************************)
NewUser ==
  [points |-> 0, streak |-> 0, lastActiveDate |-> Date(0), createdAt |-> Date(0)]

Scenarios ==
  { [done |-> 0,  early |-> 0, points |-> 0,   streak |-> 0, unlocked |-> {}],
    [done |-> 8,  early |-> 8, points |-> 650, streak |-> 7,
     unlocked |-> {"first_task"}],
    [done |-> 9,  early |-> 0, points |-> 900, streak |-> 0,
     unlocked |-> {"first_task"}],
    [done |-> 99, early |-> 0, points |-> 500, streak |-> 6,
     unlocked |-> {"first_task", "tasks_10"}] }

\* the store before the requests to the completion and task routes, which
\* compare points in time and never ask for a local day
InitStore(s, requests) ==
  /\ now = 0
  /\ zone = "utc"
  /\ users = [u \in Users |->
               IF u = "u1"
               THEN [NewUser EXCEPT !.points = s.points, !.streak = s.streak]
               ELSE NewUser]
  /\ archive = [u \in Users |->
                 IF u = "u1" THEN [done |-> s.done, early |-> s.early]
                 ELSE [done |-> 0, early |-> 0]]
  /\ achievements = [ua \in Users \X AchIds |->
                      IF ua[1] = "u1" /\ ua[2] \in s.unlocked THEN 1 ELSE 0]
  /\ budget = requests
  /\ completions = [t \in TaskIds |-> 0]
  /\ sections = HomeSection
  /\ subsections = NoSubsections
  /\ logins = [u \in Users |-> IF u = "u1" /\ s.streak > 0 THEN 1 ELSE 0]

\* one request at a time
Init ==
  /\ \E s \in Scenarios : InitStore(s, MaxRequests)
  /\ tasks = [t \in TaskIds |-> Fresh]
  /\ req = [r \in {"r1"} |-> Idle]

\* The requests are served one after the other; time passes at any moment.
Next ==
  \/ \E r \in DOMAIN req, u \in Users, t \in TaskIds : StartComplete(r, u, t)
  \/ \E r \in DOMAIN req : FindTask(r)
  \/ \E r \in DOMAIN req : SaveTask(r)
  \/ \E r \in DOMAIN req : SaveUser(r)
  \/ \E r \in DOMAIN req : AchFind(r)
  \/ \E r \in DOMAIN req : AchCheck(r)
  \/ \E r \in DOMAIN req : AchInsert(r)
  \/ \E r \in DOMAIN req : AchLoadUser(r)
  \/ \E r \in DOMAIN req : AchSaveUser(r)
  \/ \E r \in DOMAIN req : Return(r)
  \/ \E r \in DOMAIN req, type \in Types, priority \in Priorities \cup {"missing"},
        date \in DateInputs :
       CreateTask(r, "u1", "s1", Null, type, priority, date, date)
  \/ \E r \in DOMAIN req : SaveNewTask(r)
  \/ \E r \in DOMAIN req, t \in TaskIds, body \in Patches :
       Issued(tasks, t) /\ StartUpdateTask(r, "u1", t, body)
  \/ \E r \in DOMAIN req : UpdateTask(r)
  \/ \E r \in DOMAIN req, t \in TaskIds :
       Issued(tasks, t) /\ StartDeleteTask(r, "u1", t)
  \/ \E r \in DOMAIN req : DeleteTask(r)
  \/ Tick

Spec == Init /\ [][Next]_vars


(***************************************************************************)
(* Concurrent completion requests: two requests in flight, their store     *)
(* operations interleaved, over two pending tasks of u1.                   *)
(***************************************************************************)
InitRace ==
  /\ \E s \in Scenarios : InitStore(s, MaxCompletes)
  /\ tasks = [t \in TaskIds |->
               IF t = "t1"
               THEN NewTask("u1", "s1", Null, "daily", "medium", Missing, Missing)
               ELSE NewTask("u1", "s1", Null, "deadline", "high", Missing, Date(1))]
  /\ req = [r \in Slots |-> Idle]

NextRace ==
  \/ \E r \in DOMAIN req, t \in TaskIds : StartComplete(r, "u1", t)
  \/ \E r \in DOMAIN req : FindTask(r)
  \/ \E r \in DOMAIN req : SaveTask(r)
  \/ \E r \in DOMAIN req : SaveUser(r)
  \/ \E r \in DOMAIN req : AchFind(r)
  \/ \E r \in DOMAIN req : AchCheck(r)
  \/ \E r \in DOMAIN req : AchInsert(r)
  \/ \E r \in DOMAIN req : AchLoadUser(r)
  \/ \E r \in DOMAIN req : AchSaveUser(r)
  \/ \E r \in DOMAIN req : Return(r)
  \/ Tick

SpecRace == InitRace /\ [][NextRace]_vars

(***************************************************************************)
(* Login: the streak engine.                                               *)
(***************************************************************************)
\* new Date(x).setHours(0,0,0,0): midnight of the day of x
SetHoursZero(t) == Midnight(zone, LocalDay(zone, t))

\* user.streak after the streak update of the login handler, at clock t
StreakUpdate(user, t) ==
  LET today == SetHoursZero(t)
      lastActive == SetHoursZero(user.lastActiveDate.t)
      diff == today - lastActive
  IN  \* dayDiff = diff / TicksPerDay: dayDiff === 1, dayDiff > 1
      IF diff = TicksPerDay THEN user.streak + 1
      ELSE IF diff > TicksPerDay THEN 1
      ELSE user.streak

\* POST /api/auth/signup: await User.findOne({ email })
StartSignup(r, u) ==
  /\ req[r].pc = "idle"
  /\ req' = [req EXCEPT ![r] =
               IF users[u] # NoDoc
               THEN [Idle EXCEPT !.pc = "done", !.op = "signup", !.userId = u,
                                 !.res = [status |-> "EmailExists"]]
               ELSE [Idle EXCEPT !.pc = "signupHash", !.op = "signup", !.userId = u]]
  /\ UNCHANGED <<zone, now, users, tasks, archive, achievements, budget, completions,
                 sections, subsections, logins>>

\* the signup with a fixed default for lastActiveDate
SignupHashFixedDefault(r) ==
  /\ req[r].pc = "signupHash"
  /\ req' = [req EXCEPT ![r].pc = "signupSave",
                        ![r].user = [NewUser EXCEPT !.createdAt = Date(now)]]
  /\ UNCHANGED <<zone, now, users, tasks, archive, achievements, budget, completions,
                 sections, subsections, logins>>

\* await bcrypt.hash(...); new User({ name, email, password }): the schema
\* defaults are evaluated, lastActiveDate and createdAt are Date.now;
\* user.save() is issued
SignupHash(r) ==
  /\ req[r].pc = "signupHash"
  /\ req' = [req EXCEPT ![r].pc = "signupSave",
                        ![r].user = [NewUser EXCEPT !.lastActiveDate = Date(now),
                                                    !.createdAt = Date(now)]]
  /\ UNCHANGED <<zone, now, users, tasks, archive, achievements, budget, completions,
                 sections, subsections, logins>>

\* await user.save() inserts the document (the unique index on email
\* rejects a second document: the catch answers 500)
SignupSave(r) ==
  /\ req[r].pc = "signupSave"
  /\ LET u == req[r].userId
     IN  IF users[u] = NoDoc
         THEN /\ users' = [users EXCEPT ![u] = req[r].user]
              /\ req' = [req EXCEPT ![r].pc = "done",
                                    ![r].res = [status |-> "ok", streak |-> 0,
                                                points |-> 0]]
         ELSE /\ users' = users
              /\ req' = [req EXCEPT ![r].pc = "done",
                                    ![r].res = [status |-> "ServerError"]]
  /\ UNCHANGED <<zone, now, tasks, archive, achievements, budget, completions,
                 sections, subsections, logins>>

\* POST /api/auth/login: await User.findOne({ email }); bcrypt.compare is issued
StartLogin(r, u) ==
  /\ req[r].pc = "idle"
  /\ budget > 0
  /\ budget' = budget - 1
  /\ req' = [req EXCEPT ![r] =
               IF users[u] = NoDoc
               THEN [Idle EXCEPT !.pc = "done", !.op = "login", !.userId = u,
                                 !.res = [status |-> "InvalidCredentials"]]
               ELSE [Idle EXCEPT !.pc = "loginCompare", !.op = "login",
                                 !.userId = u, !.user = users[u]]]
  /\ UNCHANGED <<zone, now, users, tasks, archive, achievements, completions,
               sections, subsections, logins>>

\* await bcrypt.compare(...): the password matches; the streak update;
\* user.lastActiveDate = new Date(); user.save() is issued.  doc keeps the
\* document as it was loaded: save() writes the paths that differ from it.
LoginCompare(r) ==
  /\ req[r].pc = "loginCompare"
  /\ req' = [req EXCEPT ![r].pc = "loginSave",
                        ![r].doc = req[r].user,
                        ![r].user.streak = StreakUpdate(req[r].user, now),
                        ![r].user.lastActiveDate = Date(now)]
  /\ UNCHANGED <<zone, now, users, tasks, archive, achievements, budget, completions,
                 sections, subsections, logins>>

\* await user.save() writes lastActiveDate and, when its value was changed,
\* streak; the response carries the streak and the points of the document
LoginSave(r) ==
  /\ req[r].pc = "loginSave"
  /\ LET u == req[r].userId
         user == req[r].user
     IN  /\ users' = [users EXCEPT
                        ![u].streak = IF user.streak # req[r].doc.streak
                                      THEN user.streak ELSE @,
                        ![u].lastActiveDate = user.lastActiveDate]
         /\ req' = [req EXCEPT ![r].pc = "done",
                               ![r].res = [status |-> "ok", streak |-> user.streak,
                                           points |-> user.points]]
         /\ logins' = [logins EXCEPT ![u] = @ + 1]
  /\ UNCHANGED <<zone, now, tasks, archive, achievements, budget, completions,
                 sections, subsections>>

\* 24 hours pass, up to day `days`
DayPasses(days) ==
  /\ now \div TicksPerDay < days
  /\ now' = now + TicksPerDay
  /\ UNCHANGED <<zone, users, tasks, archive, achievements, req, budget, completions,
               sections, subsections, logins>>

\* the server clock is set back by a day (clock skew)
ClockSkew ==
  /\ now >= TicksPerDay
  /\ now' = now - TicksPerDay
  /\ UNCHANGED <<zone, users, tasks, archive, achievements, req, budget, completions,
               sections, subsections, logins>>

\* the streaks u1 has built by earlier logins
LoginStreaks == {0, 6}

\* u1 has built a streak of 0 or 6 by earlier logins; u2 has not signed up
InitLogin ==
  /\ now = 0
  /\ zone \in Zones
  /\ \E streak \in LoginStreaks :
       users = [u \in Users |->
                 IF u = "u1" THEN [NewUser EXCEPT !.streak = streak] ELSE NoDoc]
  /\ archive = [u \in Users |-> [done |-> 0, early |-> 0]]
  /\ achievements = [ua \in Users \X AchIds |-> 0]
  /\ tasks = [t \in TaskIds |-> Fresh]
  /\ req = [r \in {"r1"} |-> Idle]
  /\ budget = MaxLogins
  /\ completions = [t \in TaskIds |-> 0]
  /\ sections = HomeSection
  /\ subsections = NoSubsections
  /\ logins = [u \in Users |-> IF u = "u1" THEN 1 ELSE 0]

NextLogin ==
  \/ \E r \in DOMAIN req : StartSignup(r, "u2")
  \/ \E r \in DOMAIN req : SignupHash(r)
  \/ \E r \in DOMAIN req : SignupSave(r)
  \/ \E r \in DOMAIN req, u \in Users : StartLogin(r, u)
  \/ \E r \in DOMAIN req : LoginCompare(r)
  \/ \E r \in DOMAIN req : LoginSave(r)
  \/ \E r \in DOMAIN req : Return(r)
  \/ Tick
  \/ DayPasses(MaxDays)
  \/ ClockSkew

SpecLogin == InitLogin /\ [][NextLogin]_vars

(***************************************************************************)
(* Concurrent logins of u1: two login requests in flight, their store      *)
(* operations interleaved, while the clock only moves forward.             *)
(***************************************************************************)
\* u1 has logged in on day 0 with a streak of 0 or 6; u2 has signed up
InitLoginRace ==
  /\ now = 0
  /\ zone \in Zones
  /\ \E streak \in LoginStreaks :
       users = [u \in Users |->
                 IF u = "u1" THEN [NewUser EXCEPT !.streak = streak] ELSE NewUser]
  /\ archive = [u \in Users |-> [done |-> 0, early |-> 0]]
  /\ achievements = [ua \in Users \X AchIds |-> 0]
  /\ tasks = [t \in TaskIds |-> Fresh]
  /\ req = [r \in Slots |-> Idle]
  /\ budget = MaxRaceLogins
  /\ completions = [t \in TaskIds |-> 0]
  /\ sections = HomeSection
  /\ subsections = NoSubsections
  /\ logins = [u \in Users |-> IF u = "u1" THEN 1 ELSE 0]

NextLoginRace ==
  \/ \E r \in DOMAIN req : StartLogin(r, "u1")
  \/ \E r \in DOMAIN req : LoginCompare(r)
  \/ \E r \in DOMAIN req : LoginSave(r)
  \/ \E r \in DOMAIN req : Return(r)
  \/ Tick
  \/ DayPasses(MaxDays)

SpecLoginRace == InitLoginRace /\ [][NextLoginRace]_vars

(***************************************************************************)
(* The tree of sections, subsections and tasks: the section and subsection *)
(* routes of both users and the logins of u1, one request of theirs at a   *)
(* time, interleaved with the requests of u1 to the task routes, one of    *)
(* them at a time.                                                         *)
(***************************************************************************)
\* the parents the created tasks and subsections name
TreeSections == {"s1", "s2"}
TreeSubsections == {Null, Ref("b1")}

\* u1 has completed 9 tasks and built a streak of 6 earlier; no section
\* exists yet.  The server runs in a zone without daylight saving time: of
\* these routes the login alone asks for a local day.
InitTree ==
  /\ now = 0
  /\ zone = "utc"
  /\ users = [u \in Users |->
               IF u = "u1" THEN [NewUser EXCEPT !.points = 900, !.streak = 6]
               ELSE NewUser]
  /\ archive = [u \in Users |->
                 IF u = "u1" THEN [done |-> 9, early |-> 0]
                 ELSE [done |-> 0, early |-> 0]]
  /\ achievements = [ua \in Users \X AchIds |->
                      IF ua = <<"u1", "first_task">> THEN 1 ELSE 0]
  /\ tasks = [t \in TaskIds |-> Fresh]
  /\ sections = [s \in SectionIds |-> Fresh]
  /\ subsections = NoSubsections
  /\ req = [r \in Slots |-> Idle]
  /\ budget = MaxTreeOps
  /\ completions = [t \in TaskIds |-> 0]
  /\ logins = [u \in Users |-> IF u = "u1" THEN 1 ELSE 0]

NextTree ==
  \/ \E u \in Users : StartCreateSection("r1", u)
  \/ \E r \in DOMAIN req : CreateSectionCount(r)
  \/ \E r \in DOMAIN req : SaveSection(r)
  \/ \E u \in Users, s \in SectionIds, body \in SectionPatches :
       Issued(sections, s) /\ StartUpdateSection("r1", u, s, body)
  \/ \E r \in DOMAIN req : UpdateSection(r)
  \/ \E u \in Users, s \in SectionIds :
       Issued(sections, s) /\ StartDeleteSection("r1", u, s)
  \/ \E r \in DOMAIN req : DeleteSectionTasks(r)
  \/ \E r \in DOMAIN req : DeleteSectionSubs(r)
  \/ \E r \in DOMAIN req : DeleteSectionDoc(r)
  \/ \E u \in Users, s \in TreeSections :
       Issued(sections, s) /\ StartCreateSubsection("r1", u, s)
  \/ \E r \in DOMAIN req : CreateSubsectionCount(r)
  \/ \E r \in DOMAIN req : SaveSubsection(r)
  \/ \E u \in Users, b \in SubsectionIds, body \in SubsectionPatches :
       Issued(subsections, b) /\ StartUpdateSubsection("r1", u, b, body)
  \/ \E r \in DOMAIN req : UpdateSubsection(r)
  \/ \E u \in Users, b \in SubsectionIds :
       Issued(subsections, b) /\ StartDeleteSubsection("r1", u, b)
  \/ \E r \in DOMAIN req : DeleteSubsectionTasks(r)
  \/ \E r \in DOMAIN req : DeleteSubsectionDoc(r)
  \/ \E r \in DOMAIN req : Return(r)
  \/ \E s \in TreeSections, b \in TreeSubsections :
       /\ Issued(sections, s) /\ IssuedRef(subsections, b)
       /\ CreateTask("r2", "u1", s, b, "daily", "medium", Date(0), Missing)
  \/ \E r \in DOMAIN req : SaveNewTask(r)
  \/ \E t \in TaskIds :
       Issued(tasks, t) /\ StartUpdateTask("r2", "u1", t, [status |-> "completed"])
  \/ \E r \in DOMAIN req : UpdateTask(r)
  \/ \E t \in TaskIds : Issued(tasks, t) /\ StartDeleteTask("r2", "u1", t)
  \/ \E r \in DOMAIN req : DeleteTask(r)
  \/ StartLogin("r1", "u1")
  \/ \E r \in DOMAIN req : LoginCompare(r)
  \/ \E r \in DOMAIN req : LoginSave(r)
  \/ DayPasses(MaxTreeDays)

SpecTree == InitTree /\ [][NextTree]_vars

(***************************************************************************)
(* The sections alone: creates and deletes of sections by both users, one  *)
(* request at a time.                                                      *)
(***************************************************************************)
InitSections == InitTree

NextSections ==
  \/ \E u \in Users : StartCreateSection("r1", u)
  \/ \E r \in DOMAIN req : CreateSectionCount(r)
  \/ \E r \in DOMAIN req : SaveSection(r)
  \/ \E u \in Users, s \in SectionIds :
       Issued(sections, s) /\ StartDeleteSection("r1", u, s)
  \/ \E r \in DOMAIN req : DeleteSectionTasks(r)
  \/ \E r \in DOMAIN req : DeleteSectionSubs(r)
  \/ \E r \in DOMAIN req : DeleteSectionDoc(r)
  \/ \E r \in DOMAIN req : Return(r)

SpecSections == InitSections /\ [][NextSections]_vars

(***************************************************************************)
(* The completion percentage as a function of a task list, the list given  *)
(* by its length and the number of its completed tasks.                    *)
(***************************************************************************)
\* GET /api/sections has loaded the tasks of a section or subsection
InitPercent ==
  /\ now = 0
  /\ zone = "utc"
  /\ users = [u \in Users |-> NewUser]
  /\ archive = [u \in Users |-> [done |-> 0, early |-> 0]]
  /\ achievements = [ua \in Users \X AchIds |-> 0]
  /\ tasks = [t \in TaskIds |-> Fresh]
  /\ sections = HomeSection
  /\ subsections = NoSubsections
  /\ \E length \in 0..MaxTasks : \E completed \in 0..length :
       req = [r \in {"r1"} |->
               [AuthMiddleware("u1", "getSections")
                  EXCEPT !.pc = "aggregate",
                         !.doc = [k |-> "tasks", length |-> length,
                                  completed |-> completed]]]
  /\ budget = 0
  /\ completions = [t \in TaskIds |-> 0]
  /\ logins = [u \in Users |-> 0]

\* completionPercent: tasks.length ? Math.round(...) : 0
Aggregate(r) ==
  /\ req[r].pc = "aggregate"
  /\ req' = [req EXCEPT ![r].pc = "done",
                        ![r].res = [status |-> "ok",
                                    completionPercent |->
                                      CompletionPercent(req[r].doc.completed,
                                                        req[r].doc.length)]]
  /\ UNCHANGED <<zone, now, users, tasks, archive, achievements, budget, completions,
                 sections, subsections, logins>>

NextPercent == \E r \in DOMAIN req : Aggregate(r)

SpecPercent == InitPercent /\ [][NextPercent]_vars

(***************************************************************************)
(* The weekly heatmap: GET /api/stats/weekly.                              *)
(***************************************************************************)
\* the number of days of the heatmap: the window 7 * 24 * 60 * 60 * 1000 of
\* the query and the loop i = 6 .. 0
WeekLength == 7

\* new Date(today.getTime() - i * 24 * 60 * 60 * 1000)
DaysBefore(today, i) == today - i * TicksPerDay

\* { $gte: weekAgo, $lte: today } on a Date field: a missing or null field
\* matches no range
InRange(d, lo, hi) == IsDate(d) /\ lo <= d.t /\ d.t <= hi

\* Task.find({ userId, $or: [{ targetDate: { $gte: weekAgo, $lte: today } },
\*                           { deadline: { $gte: weekAgo, $lte: today } }] })
FindWeekTasks(T, u, today) ==
  LET weekAgo == DaysBefore(today, WeekLength)
  IN  {t \in TaskIds : /\ IsTask(T[t]) /\ T[t].userId = u
                       /\ \/ InRange(T[t].targetDate, weekAgo, today)
                          \/ InRange(T[t].deadline, weekAgo, today)}

\* t.targetDate || t.deadline
TargetOrDeadline(task) ==
  IF Truthy(task.targetDate) THEN task.targetDate ELSE task.deadline

\* new Date(x).toDateString(): the calendar day of x, without its time of day
ToDateString(t) == LocalDay(zone, t)

\* the summary pushed by the loop for i
DaySummary(T, found, today, i) ==
  LET d == DaysBefore(today, i)
      dayTasks == {t \in found :
                     LET td == TargetOrDeadline(T[t])
                     IN  IsDate(td) /\ ToDateString(td.t) = ToDateString(d)}
      completed == Cardinality(CompletedOf(T, dayTasks))
  IN  [date |-> Date(d), total |-> Cardinality(dayTasks),
       completed |-> completed,
       percent |-> CompletionPercent(completed, Cardinality(dayTasks))]

\* days, after the loop for (let i = 6; i >= 0; i--)
WeekDays(T, found, today) ==
  [j \in 1..WeekLength |-> DaySummary(T, found, today, WeekLength - j)]

\* GET /api/stats/weekly is requested by u: authMiddleware;
\* const today = new Date(); Task.find(...) is issued
StartWeekly(r, u) ==
  /\ req[r].pc = "idle"
  /\ budget > 0
  /\ budget' = budget - 1
  /\ req' = [req EXCEPT ![r] = [AuthMiddleware(u, "weekly")
                                  EXCEPT !.pc = "findWeek",
                                         !.doc = [k |-> "week", today |-> now]]]
  /\ UNCHANGED <<zone, now, users, tasks, archive, achievements, completions,
                 sections, subsections, logins>>

\* await Task.find(...); the loop; res.json(days)
FindWeek(r) ==
  /\ req[r].pc = "findWeek"
  /\ LET today == req[r].doc.today
         found == FindWeekTasks(tasks, req[r].userId, today)
     IN  req' = [req EXCEPT ![r].pc = "done",
                            ![r].res = [status |-> "ok",
                                        days |-> WeekDays(tasks, found, today)]]
  /\ UNCHANGED <<zone, now, users, tasks, archive, achievements, budget, completions,
                 sections, subsections, logins>>

\* the days the anchors of the stored tasks lie on: a week before the
\* request, the first day of the heatmap, the day of the request, the next day
AnchorDays == {0, 1, WeekLength, WeekLength + 1}
AnchorDates == {Date(d * TicksPerDay + h) : d \in AnchorDays, h \in 0..MaxTime}

\* the tasks POST /api/tasks has stored with an anchor, completed or not
\* (PUT /api/tasks/:id with a status)
StoredTasks(owners) ==
  {ApplyPatch(NewTask(u, "s1", Null, type, "medium", d, d), [status |-> st]) :
     u \in owners, type \in Types, d \in AnchorDates,
     st \in {"pending", "completed"}}

\* the request arrives on day WeekLength; t1 is a task of u1, if it exists
InitWeekly ==
  /\ now = WeekLength * TicksPerDay
  /\ zone \in Zones
  /\ users = [u \in Users |-> NewUser]
  /\ archive = [u \in Users |-> [done |-> 0, early |-> 0]]
  /\ achievements = [ua \in Users \X AchIds |-> 0]
  /\ \E d1 \in StoredTasks({"u1"}) \cup {Fresh},
        d2 \in StoredTasks(Users) \cup {Fresh} :
       tasks = [t \in TaskIds |-> IF t = "t1" THEN d1 ELSE d2]
  /\ sections = HomeSection
  /\ subsections = NoSubsections
  /\ req = [r \in {"r1"} |-> Idle]
  /\ budget = MaxWeekly
  /\ completions = [t \in TaskIds |-> 0]
  /\ logins = [u \in Users |-> 0]

NextWeekly ==
  \/ \E r \in DOMAIN req, u \in Users : StartWeekly(r, u)
  \/ \E r \in DOMAIN req : FindWeek(r)
  \/ \E r \in DOMAIN req : Return(r)
  \/ Tick

SpecWeekly == InitWeekly /\ [][NextWeekly]_vars

(***************************************************************************)
(* Properties.                                                             *)
(***************************************************************************)

\* C1: over any sequence of operations on a task, a completion request
\* succeeds for it at most once: no task is completed (and awarded) by two
\* completion requests.
C1_CompletedAtMostOnce == \A t \in TaskIds : completions[t] <= 1

\* both requests address the same task with a completion
SameTask(r1, r2) ==
  /\ r1 # r2
  /\ req[r1].op = "complete" /\ req[r2].op = "complete"
  /\ req[r1].taskId = req[r2].taskId

\* C2: of two interleaved completion requests for the same pending task at
\* most one passes the pending-status check and writes: never have both
\* written the completion, and never have both written the task's points.
C2_FirstWriterWins ==
  \A r1, r2 \in DOMAIN req :
    SameTask(r1, r2) =>
      /\ ~(req[r1].taskWrites >= 1 /\ req[r2].taskWrites >= 1)
      /\ ~(req[r1].pointWrites >= 1 /\ req[r2].pointWrites >= 1)

\* C3: in every reachable state there is at most one unlock record per
\* (user, achievementId) pair.
C3_OneUnlockPerPair ==
  \A u \in Users, a \in AchIds : achievements[<<u, a>>] <= 1

\* C4: no store write decreases user.points, and points is never negative.
C4_PointsNeverDecrease ==
  [][\A u \in Users : /\ users'[u].points >= users[u].points
                      /\ users'[u].points >= 0]_vars

\* the stored task a request addresses is its user's and is completed
AddressesCompleted(r) ==
  LET d == tasks[req[r].taskId]
  IN  IsTask(d) /\ d.userId = req[r].userId /\ d.status = "completed"

\* C5: a completion request that finds its task already completed answers
\* AlreadyCompleted, and changes neither the tasks, nor the users' points,
\* nor the unlock records; such a request has written nothing.
C5_AlreadyCompletedRejected ==
  [][\A r \in DOMAIN req :
       /\ (req[r].pc = "findTask" /\ req'[r].pc # "findTask" /\ AddressesCompleted(r))
            => /\ req'[r].pc = "done"
               /\ req'[r].res.status = "AlreadyCompleted"
               /\ UNCHANGED <<tasks, users, achievements, completions>>
       /\ (req'[r].pc = "done" /\ req'[r].res.status = "AlreadyCompleted")
            => /\ req'[r].taskWrites = 0
               /\ req'[r].pointWrites = 0]_vars

\* a completion request has been answered AlreadyCompleted
C5_Witness ==
  \E r \in DOMAIN req :
    /\ req[r].pc = "done" /\ req[r].op = "complete"
    /\ req[r].res.status = "AlreadyCompleted"
    /\ AddressesCompleted(r)

\* the base points the claims state for a priority
ClaimBase(priority) ==
  CASE priority = "low" -> 50 [] priority = "medium" -> 75 [] priority = "high" -> 100

\* C6: a successful completion earns the base of the task's priority, plus
\* 25 exactly when the task is of type deadline, its deadline is set and the
\* time of the handler's bonus test is strictly before the deadline; a daily
\* task earns the base alone; the response reports these points.
C6_PointsEarned ==
  [][\A r \in DOMAIN req :
       /\ (req[r].pc = "saveTask" /\ req'[r].pc = "saveUser")
            => LET d == tasks[req[r].taskId]
                   early == /\ d.type = "deadline"
                            /\ IsDate(d.deadline)
                            /\ now < d.deadline.t
               IN  /\ early => req'[r].points = ClaimBase(d.priority) + 25
                   /\ ~early => req'[r].points = ClaimBase(d.priority)
                   /\ d.type = "daily" => req'[r].points = ClaimBase(d.priority)
       /\ (req[r].op = "complete" /\ req[r].pc # "done" /\ req'[r].pc = "done"
             /\ req'[r].res.status = "ok")
            => req'[r].res.pointsEarned = req[r].points]_vars

\* a high-priority deadline task was completed before its deadline: 125
C6_Witness ==
  \E r \in DOMAIN req :
    /\ req[r].pc = "done" /\ req[r].op = "complete" /\ req[r].res.status = "ok"
    /\ IsTask(tasks[req[r].taskId])
    /\ tasks[req[r].taskId].type = "deadline"
    /\ tasks[req[r].taskId].priority = "high"
    /\ req[r].res.pointsEarned = 125

\* C7: checkAchievements run again right after the run of a completion,
\* with no state change in between, returns no new achievement and changes
\* neither the users' points nor the unlock records.
C7_SecondRunEmpty ==
  \A r \in DOMAIN req :
    (req[r].pc = "done" /\ req[r].op = "complete" /\ req[r].res.status = "ok")
      => LET second == CheckAchievements(users, achievements, tasks, archive,
                                         req[r].userId)
         IN  /\ second.newAchievements = <<>>
             /\ second.users = users
             /\ second.achievements = achievements

\* the reward the catalog of the claims states for an achievement
ClaimReward(id) ==
  CASE id = "first_task" -> 50   [] id = "tasks_10" -> 100
    [] id = "tasks_100" -> 500   [] id = "streak_7" -> 200
    [] id = "points_1000" -> 300 [] id = "early_10" -> 150

\* the completed tasks of u
ClaimCompleted(u) ==
  archive[u].done +
  Cardinality({t \in TaskIds : IsTask(tasks[t]) /\ tasks[t].userId = u
                               /\ tasks[t].status = "completed"})

\* the completed deadline tasks of u that were completed before their deadline
ClaimEarly(u) ==
  archive[u].early +
  Cardinality({t \in TaskIds :
                 /\ IsTask(tasks[t]) /\ tasks[t].userId = u
                 /\ tasks[t].status = "completed" /\ tasks[t].type = "deadline"
                 /\ IsDate(tasks[t].completedAt) /\ IsDate(tasks[t].deadline)
                 /\ tasks[t].completedAt.t < tasks[t].deadline.t})

\* the predicate the claims state for an achievement, on the current state
ClaimPredicate(id, u) ==
  CASE id = "first_task"  -> ClaimCompleted(u) >= 1
    [] id = "tasks_10"    -> ClaimCompleted(u) >= 10
    [] id = "tasks_100"   -> ClaimCompleted(u) >= 100
    [] id = "streak_7"    -> users[u].streak >= 7
    [] id = "points_1000" -> users[u].points >= 1000
    [] id = "early_10"    -> ClaimEarly(u) >= 10

\* C8: checkAchievements unlocks a catalog entry if and only if no unlock
\* record exists for (user, id) and the entry's predicate holds on the
\* current state; an unlock persists exactly one record and adds exactly the
\* catalog reward to user.points.
C8_UnlockIffPredicate ==
  [][\A r \in DOMAIN req :
       req'[r] # req[r] =>
         LET u == req[r].userId
             id == ACHIEVEMENTS[req[r].idx].id
         IN  /\ req[r].pc = "achFind"
                  => (req'[r].pc = "achCheck" <=> achievements[<<u, id>>] = 0)
             /\ req[r].pc = "achCheck"
                  => (req'[r].pc = "achInsert" <=> ClaimPredicate(id, u))
             /\ req[r].pc = "achInsert"
                  => achievements' = [achievements EXCEPT ![<<u, id>>] = 1]
             /\ req[r].pc = "achSaveUser"
                  => /\ users'[u].points = users[u].points + ClaimReward(id)
                     /\ req'[r].newAchievements = Append(req[r].newAchievements, id)]_vars

\* the calendar day of a point in time, in the local time of the server
Day(t) == LocalDay(zone, t)

\* C9: on login, with dayDiff the number of whole calendar days from the
\* day of the lastActiveDate read to the day of the login, in the local
\* time of the server: dayDiff = 1 increments
\* the streak by exactly 1, dayDiff > 1 sets it to 1, dayDiff <= 0 leaves it
\* unchanged; the streak so computed is the one stored and returned.
C9_StreakByDayDiff ==
  [][\A r \in DOMAIN req :
       /\ (req[r].pc = "loginCompare" /\ req'[r].pc = "loginSave")
            => LET read == req[r].user
                   dayDiff == Day(now) - Day(read.lastActiveDate.t)
               IN  /\ dayDiff = 1 => req'[r].user.streak = read.streak + 1
                   /\ dayDiff > 1 => req'[r].user.streak = 1
                   /\ dayDiff <= 0 => req'[r].user.streak = read.streak
       /\ (req[r].pc = "loginSave" /\ req'[r].pc = "done")
            => /\ users'[req[r].userId].streak = req[r].user.streak
               /\ req'[r].res.streak = req[r].user.streak]_vars

RECURSIVE SumRewards(_)
\* the sum of the rewards of a list of achievements
SumRewards(ids) ==
  IF ids = <<>> THEN 0 ELSE ClaimReward(Head(ids)) + SumRewards(Tail(ids))

\* C10: a successful completion mutates the status of its task only, once,
\* updates the points once for the task and once per newly unlocked
\* achievement, and leaves the user's stored points at
\* points before + pointsEarned + the rewards of the returned newAchievements.
C10_SideEffects ==
  [][\A r \in DOMAIN req :
       /\ (req[r].pc = "saveTask" /\ req'[r].pc = "saveUser")
            => /\ \A t \in TaskIds \ {req[r].taskId} : tasks'[t] = tasks[t]
               /\ tasks[req[r].taskId].status = "pending"
               /\ tasks'[req[r].taskId].status = "completed"
               /\ users' = users
       /\ (req[r].op = "complete" /\ req[r].pc # "done" /\ req'[r].pc = "done"
             /\ req'[r].res.status = "ok")
            => /\ req'[r].taskWrites = 1
               /\ req'[r].pointWrites = 1 + Len(req'[r].res.newAchievements)
               /\ users'[req[r].userId].points =
                    req[r].before + req'[r].res.pointsEarned
                      + SumRewards(req'[r].res.newAchievements)]_vars

\* a completion has been answered with two newly unlocked achievements
C10_Witness ==
  \E r \in DOMAIN req :
    /\ req[r].pc = "done" /\ req[r].op = "complete" /\ req[r].res.status = "ok"
    /\ Len(req[r].res.newAchievements) = 2
    /\ users[req[r].userId].points > req[r].before + req[r].res.pointsEarned

\* the request is the first login of its user since the signup
FirstLogin(r) ==
  /\ req[r].op = "login"
  /\ logins[req[r].userId] = 0

\* C20 as stated: on a user's first-ever login after signup, dayDiff is 0
\* and the streak stays at its default value 0.
C20_FirstLoginKeepsStreak ==
  [][\A r \in DOMAIN req :
       /\ (FirstLogin(r) /\ req[r].pc = "loginCompare" /\ req'[r].pc = "loginSave")
            => /\ Day(now) - Day(req[r].user.lastActiveDate.t) = 0
               /\ req'[r].user.streak = 0
       /\ (FirstLogin(r) /\ req[r].pc = "loginSave" /\ req'[r].pc = "done")
            => /\ users'[req[r].userId].streak = 0
               /\ req'[r].res.streak = 0]_vars

\* C20, amended: on a user's first-ever login the lastActiveDate read is the
\* creation time of the user; when the login falls on the calendar day of
\* the signup, dayDiff is 0 and the streak stays at its default value 0.
C20_FirstLoginBySignupDay ==
  [][\A r \in DOMAIN req :
       /\ (FirstLogin(r) /\ req[r].pc = "loginCompare" /\ req'[r].pc = "loginSave")
            => LET read == req[r].user
               IN  /\ read.lastActiveDate = read.createdAt
                   /\ read.streak = 0
                   /\ Day(now) = Day(read.createdAt.t)
                        => /\ Day(now) - Day(read.lastActiveDate.t) = 0
                           /\ req'[r].user.streak = 0
       /\ (FirstLogin(r) /\ req[r].pc = "loginSave" /\ req'[r].pc = "done"
             /\ Day(req[r].user.lastActiveDate.t) = Day(req[r].user.createdAt.t))
            => /\ users'[req[r].userId].streak = 0
               /\ req'[r].res.streak = 0]_vars

\* a first login on the signup day has left the streak at 0 on a day after day 0
C20_Witness ==
  \E r \in DOMAIN req :
    /\ req[r].pc = "done" /\ req[r].op = "login" /\ req[r].res.status = "ok"
    /\ req[r].userId = "u2"
    /\ logins["u2"] = 1
    /\ users["u2"].streak = 0
    /\ users["u2"].createdAt.t >= TicksPerDay
    /\ Day(users["u2"].lastActiveDate.t) = Day(users["u2"].createdAt.t)

\* the user a step of request r acts for
Actor(r) == IF req[r].pc = "idle" THEN req'[r].userId ELSE req[r].userId

\* C11: no step of a request authenticated as one user modifies or deletes a
\* section, subsection or task owned by another user, and no subsection is
\* created under a section of another user.
C11_Isolation ==
  [][\A r \in DOMAIN req :
       req'[r] # req[r] =>
         /\ \A t \in TaskIds :
              (IsTask(tasks[t]) /\ tasks[t].userId # Actor(r)) => tasks'[t] = tasks[t]
         /\ \A s \in SectionIds :
              (IsSection(sections[s]) /\ sections[s].userId # Actor(r))
                => sections'[s] = sections[s]
         /\ \A b \in SubsectionIds :
              (IsSubsection(subsections[b]) /\ subsections[b].userId # Actor(r))
                => subsections'[b] = subsections[b]
         /\ \A b \in SubsectionIds :
              (subsections[b] = Fresh /\ IsSubsection(subsections'[b]))
                => LET s == subsections'[b].sectionId
                   IN  ~(IsSection(sections[s]) /\ sections[s].userId # Actor(r))]_vars

\* C12: in no reachable state does a subsection or a task reference a
\* section or a subsection that has been deleted.
C12_NoDanglingReference ==
  /\ \A t \in TaskIds :
       IsTask(tasks[t]) =>
         /\ sections[tasks[t].sectionId] # Deleted
         /\ tasks[t].subsectionId # Null
              => subsections[tasks[t].subsectionId.id] # Deleted
  /\ \A b \in SubsectionIds :
       IsSubsection(subsections[b]) => sections[subsections[b].sectionId] # Deleted

\* document id of collection D is the section / subsection of user u
Owns(D, id, u) == D[id].k \in {"section", "subsection"} /\ D[id].userId = u

\* request r takes a step of route op, past authMiddleware
StepOf(r, op) ==
  /\ req[r].op = op
  /\ req[r].pc \notin {"idle", "done"}
  /\ req'[r] # req[r]

\* the step changes no stored document and, when it answers, answers NotFound
Refused(r) ==
  /\ UNCHANGED <<tasks, sections, subsections>>
  /\ req'[r].pc = "done" => req'[r].res.status = "NotFound"

\* C13: a section delete, a subsection delete or a subsection create whose
\* section / subsection is absent or not owned by the requesting user changes
\* no stored section, subsection or task and answers NotFound, and no task is
\* created under a section or subsection that is absent or not its user's.
C13_NotFound ==
  [][/\ \A r \in DOMAIN req :
          /\ (StepOf(r, "deleteSection")
                /\ ~Owns(sections, req[r].id, req[r].userId)) => Refused(r)
          /\ (StepOf(r, "deleteSubsection")
                /\ ~Owns(subsections, req[r].id, req[r].userId)) => Refused(r)
          /\ (StepOf(r, "createSubsection")
                /\ ~Owns(sections, req[r].id, req[r].userId)) => Refused(r)
     /\ \A t \in TaskIds :
          (tasks[t] = Fresh /\ IsTask(tasks'[t]))
            => /\ Owns(sections, tasks'[t].sectionId, tasks'[t].userId)
               /\ tasks'[t].subsectionId # Null
                    => Owns(subsections, tasks'[t].subsectionId.id, tasks'[t].userId)]_vars

\* C14: in every reachable state the order values of one user's sections are
\* pairwise distinct.
C14_SectionOrderUnique ==
  \A s1, s2 \in SectionIds :
    (s1 # s2 /\ IsSection(sections[s1]) /\ IsSection(sections[s2])
       /\ sections[s1].userId = sections[s2].userId)
      => sections[s1].order # sections[s2].order

\* a Date field that is unset or null
Unset(d) == d = Missing \/ d = Null

\* C15: every stored task has exactly one temporal anchor matching its type:
\* a daily task has targetDate set and deadline unset/null, a deadline task
\* has deadline set and targetDate unset/null.
C15_OneTemporalAnchor ==
  \A t \in TaskIds :
    IsTask(tasks[t]) =>
      /\ tasks[t].type = "daily"
           => IsDate(tasks[t].targetDate) /\ Unset(tasks[t].deadline)
      /\ tasks[t].type = "deadline"
           => IsDate(tasks[t].deadline) /\ Unset(tasks[t].targetDate)

\* a / b rounded to the nearest integer, a half going up
RoundHalfUp(a, b) == (2 * a + b) \div (2 * b)

\* C16: completionPercent = round-half-up(100 * completedCount / count) when
\* count > 0 and 0 when count = 0, so always within 0..100.
C16_CompletionPercent ==
  \A r \in DOMAIN req :
    (req[r].pc = "done" /\ req[r].op = "getSections")
      => LET count == req[r].doc.length
             completedCount == req[r].doc.completed
             percent == req[r].res.completionPercent
         IN  /\ count > 0 => percent = RoundHalfUp(100 * completedCount, count)
             /\ count = 0 => percent = 0
             /\ percent \in 0..100

\* the catalog order the claims state
ClaimOrder ==
  <<"first_task", "tasks_10", "tasks_100", "streak_7", "points_1000", "early_10">>

ClaimPosition(id) == CHOOSE i \in 1..Len(ClaimOrder) : ClaimOrder[i] = id

\* the list of unlocked achievements follows the stated catalog order
InClaimOrder(ids) ==
  \A i, j \in 1..Len(ids) : i < j => ClaimPosition(ids[i]) < ClaimPosition(ids[j])

\* one of the rewards of ids that the stated order places before points_1000
\* raises the points, pts before the rewards, from below 1000 to 1000 or more
RECURSIVE RewardCrosses1000(_, _)
RewardCrosses1000(ids, pts) ==
  IF ids = <<>> THEN FALSE
  ELSE LET id == Head(ids)
           after == pts + ClaimReward(id)
       IN  \/ /\ ClaimPosition(id) < ClaimPosition("points_1000")
              /\ pts < 1000 /\ after >= 1000
           \/ RewardCrosses1000(Tail(ids), after)

\* C17: the achievements one invocation of checkAchievements unlocks are
\* unlocked in the order first_task, tasks_10, tasks_100, streak_7,
\* points_1000, early_10, and when the reward of first_task, tasks_10,
\* tasks_100 or streak_7 raises the points to 1000 or more, points_1000 is
\* unlocked in that same invocation.
C17_CatalogOrder ==
  \A r \in DOMAIN req :
    (req[r].pc = "done" /\ req[r].op = "complete" /\ req[r].res.status = "ok")
      => LET ids == req[r].res.newAchievements
         IN  /\ InClaimOrder(ids)
             /\ RewardCrosses1000(ids, req[r].before + req[r].res.pointsEarned)
                  => \E i \in 1..Len(ids) : ids[i] = "points_1000"

\* C18: login, task create, task update (also one that sets the status to
\* completed) and the deletes of tasks, sections and subsections leave the
\* points of every user and the unlock records unchanged.
C18_NoAchievementsOffCompletion ==
  [][/\ \A u \in Users : users'[u].points = users[u].points
     /\ achievements' = achievements]_vars

\* after a login and an update to completed, two predicates of the catalog
\* hold for u1 whose achievements are not unlocked, and a section is deleted
C18_Witness ==
  /\ logins["u1"] >= 2
  /\ users["u1"].streak >= 7 /\ achievements[<<"u1", "streak_7">>] = 0
  /\ \E t \in TaskIds : IsTask(tasks[t]) /\ tasks[t].status = "completed"
  /\ CompletedCount(tasks, archive, "u1") >= 10
  /\ achievements[<<"u1", "tasks_10">>] = 0
  /\ \E s \in SectionIds : sections[s] = Deleted

\* C19: when checkAchievements starts, the points earned by the completion
\* are stored; a completion that raises the user's points from below 1000 to
\* at least 1000 unlocks points_1000 (+300) in the newAchievements of that
\* same response.
C19_CrossingUnlocks ==
  \A r \in DOMAIN req :
    LET u == req[r].userId
    IN  /\ (req[r].pc = "achFind" /\ req[r].idx = 1)
             => users[u].points = req[r].before + req[r].points
        /\ (req[r].pc = "done" /\ req[r].op = "complete" /\ req[r].res.status = "ok"
              /\ req[r].before < 1000
              /\ req[r].before + req[r].res.pointsEarned >= 1000)
             => /\ \E i \in 1..Len(req[r].res.newAchievements) :
                     req[r].res.newAchievements[i] = "points_1000"
                /\ achievements[<<u, "points_1000">>] = 1
                /\ users[u].points >= req[r].before + req[r].res.pointsEarned + 300

\* a completion worth 125 points has raised the points from below 1000 to
\* 1000 or more and its response lists points_1000
C19_Witness ==
  \E r \in DOMAIN req :
    /\ req[r].pc = "done" /\ req[r].op = "complete" /\ req[r].res.status = "ok"
    /\ req[r].before < 1000
    /\ req[r].res.pointsEarned = 125
    /\ req[r].before + 125 >= 1000
    /\ \E i \in 1..Len(req[r].res.newAchievements) :
         req[r].res.newAchievements[i] = "points_1000"

\* the highest streak u1 starts with, on day 0, having logged in on day 0
StartStreak == CHOOSE m \in LoginStreaks : \A s \in LoginStreaks : s <= m

\* C21: every login sets lastActiveDate to the current timestamp, so across
\* any sequence or interleaving of logins of one user the streak changes at
\* most once per calendar day: a login of a user who has already logged in
\* on the same calendar day (the stored lastActiveDate lies on the day of
\* the login) leaves the stored streak unchanged, and the stored streak is
\* never raised by more than one per calendar day passed since the start.
C21_SecondLoginSameDay ==
  [][\A r \in DOMAIN req :
       /\ (req[r].pc = "loginCompare" /\ req'[r].pc = "loginSave")
            => req'[r].user.lastActiveDate = Date(now)
       /\ (req[r].pc = "loginSave" /\ req'[r].pc = "done")
            => LET u == req[r].userId
               IN  /\ (logins[u] >= 1
                       /\ Day(users[u].lastActiveDate.t) = Day(now))
                        => users'[u].streak = users[u].streak
                   /\ users'[u].streak <= StartStreak + Day(now)]_vars

\* the anchors a task has set
ClaimAnchors(task) == {d \in {task.targetDate, task.deadline} : IsDate(d)}

\* the tasks of u with a set anchor on calendar day d
ClaimDayTasks(u, d) ==
  {t \in TaskIds : /\ IsTask(tasks[t]) /\ tasks[t].userId = u
                   /\ \E a \in ClaimAnchors(tasks[t]) : Day(a.t) = d}

\* C22: the weekly heatmap returns exactly 7 daily summaries, in ascending
\* date order, for the calendar days now-6 .. now; the total and completed
\* of each count every task of the user whose set anchor (targetDate or
\* deadline) falls on that calendar day, at any time of day; percent is
\* round(100 * completed / total), or 0 when total = 0.
C22_WeeklyHeatmap ==
  [][\A r \in DOMAIN req :
       (req[r].pc = "findWeek" /\ req'[r].pc = "done")
         => LET days == req'[r].res.days
                u == req[r].userId
            IN  /\ Len(days) = 7
                /\ \A j \in 1..7 :
                     LET d == Day(now) - 7 + j
                         ts == ClaimDayTasks(u, d)
                         total == Cardinality(ts)
                         completed == Cardinality(CompletedOf(tasks, ts))
                     IN  /\ Day(days[j].date.t) = d
                         /\ days[j].total = total
                         /\ days[j].completed = completed
                         /\ days[j].percent =
                              IF total = 0 THEN 0
                              ELSE RoundHalfUp(100 * completed, total)]_vars

\* u1 started with 0 points, no completed task and no unlock record
StartedAtZero == archive["u1"] = [done |-> 0, early |-> 0]

\* every request issued so far has been answered and none has returned yet
AllAnswered ==
  /\ \A r \in DOMAIN req : req[r].pc = "done" /\ req[r].op = "complete"
  /\ budget = MaxCompletes - Cardinality(DOMAIN req)

\* the requests address different tasks
DifferentTasks ==
  \A r1, r2 \in DOMAIN req : r1 # r2 => req[r1].taskId # req[r2].taskId

RECURSIVE SumEarned(_)
\* the sum of pointsEarned of the successful completions among the requests rs
SumEarned(rs) ==
  IF rs = {} THEN 0
  ELSE LET r == CHOOSE x \in rs : TRUE
       IN  (IF req[r].res.status = "ok" THEN req[r].res.pointsEarned ELSE 0)
             + SumEarned(rs \ {r})

RECURSIVE SumUnlocks(_, _)
\* the sum of the rewards of the persisted unlock records of u, from entry i
\* of the stated catalog on
SumUnlocks(u, i) ==
  IF i > Len(ClaimOrder) THEN 0
  ELSE achievements[<<u, ClaimOrder[i]>>] * ClaimReward(ClaimOrder[i])
         + SumUnlocks(u, i + 1)

\* C23: points conservation under interleaving: for a user starting at 0
\* points, once all in-flight requests have finished, the persisted points
\* equal the sum of pointsEarned of every successful completion plus the
\* sum of the rewards of every persisted unlock record; no award is lost
\* when two completion requests of the user for different tasks interleave.
C23_PointsConserved ==
  (StartedAtZero /\ AllAnswered /\ DifferentTasks)
    => users["u1"].points = SumEarned(DOMAIN req) + SumUnlocks("u1", 1)

\* C24: the totalPoints returned by a successful completion equals the
\* user's persisted points at the moment the response is produced: it
\* includes the rewards of the achievements listed in newAchievements of the
\* same response.
C24_TotalPointsPersisted ==
  [][\A r \in DOMAIN req :
       (req[r].op = "complete" /\ req[r].pc # "done" /\ req'[r].pc = "done"
          /\ req'[r].res.status = "ok")
         => /\ req'[r].res.totalPoints = users'[req[r].userId].points
            /\ req'[r].res.totalPoints =
                 req[r].before + req'[r].res.pointsEarned
                   + SumRewards(req'[r].res.newAchievements)]_vars

\* C25: the early bonus and the early_10 count agree: a completion of a
\* deadline task earns the +25 bonus if and only if the completedAt stored
\* for the task is strictly before its deadline, which is when the
\* completion raises the count of early_10 by one.
C25_BonusIffCountedEarly ==
  [][\A r \in DOMAIN req :
       (req[r].pc = "saveTask" /\ req'[r].pc = "saveUser"
          /\ tasks'[req[r].taskId].type = "deadline")
         => LET d == tasks'[req[r].taskId]
                u == req[r].userId
                bonus == req'[r].points = ClaimBase(d.priority) + 25
                early == /\ IsDate(d.completedAt) /\ IsDate(d.deadline)
                         /\ d.completedAt.t < d.deadline.t
                counted == EarlyCount(tasks', archive, u)
                             = EarlyCount(tasks, archive, u) + 1
            IN  /\ bonus <=> early
                /\ bonus <=> counted]_vars

=============================================================================
